---- MODULE Spec2Model ----
(***************************************************************************)
(* Model of server.js: an Express application over one mongoose connection *)
(* (studentDb) and four collections (printids, acceptedidcards,            *)
(* acchistoryids, adminids).                                               *)
(*                                                                         *)
(* A request is a record in reqs.  JavaScript runs a handler to completion *)
(* up to its first await, so the arrival of a request (the middleware at   *)
(* server.js:117-122 followed by the synchronous prefix of the route       *)
(* handler) is one step, and the completion of each awaited storage        *)
(* operation is one further step.  A storage operation either resolves     *)
(* (which needs the connection to be up) or rejects with an error.         *)
(***************************************************************************)
EXTENDS Integers, Sequences, FiniteSets

\* ------------------------------------------------------------------ bounds
MaxReq == 2                     \* requests issued in one behaviour

Reqs == 1..MaxReq

RegNums == {"R1", "R2"}         \* registerNumber values in play

\* ------------------------------------------------------------- constants
\* mongoose Connection.readyState: 0 disconnected, 1 connected, 2 connecting
Disconnected == 0
Connected == 1
Connecting == 2

MsgConnecting == "Database connecting. Please retry."
MsgNotConnected == "Database not connected"
MsgAccepted == "ID card request accepted successfully"
MsgInvalidAdmin == "Invalid admin ID"
MsgStorage == "err.message"     \* the message of whatever error the driver threw
NoMsg == ""

NoStatus == "absent"            \* the body carries no status field

\* A schema whose status default is another value.
DefaultStatus_Pending == "pending"

\* acceptedIdCardSchema: status { type: String, default: "accepted" }
DefaultStatus == "accepted"

\* ------------------------------------------------------------------ state
VARIABLES
    readyState,       \* studentDb.readyState
    printids,         \* the printids collection (PrintId)
    acceptedidcards,  \* the acceptedidcards collection (AcceptedIdCard)
    acchistoryids,    \* the acchistoryids collection (AcchistoryId)
    adminids,         \* the adminids collection (AdminId)
    reqs              \* the requests: position, input, response, storage calls

vars == <<readyState, printids, acceptedidcards, acchistoryids, adminids, reqs>>

colls == <<printids, acceptedidcards, acchistoryids, adminids>>

\* ------------------------------------------------------- collection content
\* Pending documents the printids collection may hold at start: registerNumber
\* is not unique, so "R1" may be pending once or twice; "R2" is never pending.
\* The _id values 1..Cardinality(PrintPool) order the documents.
PrintPool ==
    { [_id |-> 1, registerNumber |-> "R1"],
      [_id |-> 2, registerNumber |-> "R1"] }

\* Documents the acceptedidcards collection may hold at start.
AcceptedPool == { [_id |-> 4, registerNumber |-> "R1", status |-> "accepted"] }

\* Documents of acchistoryids (nothing writes it).
HistoryPool == { [_id |-> 5, registerNumber |-> "R1", status |-> "printed"] }

\* Documents of adminids; adminid is unique (index adminid_1).
AdminPool == { [_id |-> 6, adminid |-> "a1"] }

\* The _id the store assigns to the document request q inserts.
NewId(q) == 10 + q

\* ------------------------------------------------------------ request input
\* req.body.adminId after express.json(): no such field, a string, or an object.
\* The only object modelled is the query operator { "$ne": val }.
AdminIdInputs ==
    { [kind |-> "absent", val |-> ""],
      [kind |-> "str", val |-> "a1"],
      [kind |-> "str", val |-> "A1"],
      [kind |-> "ne", val |-> "zz"] }

NoAdminId == [kind |-> "absent", val |-> ""]

\* Bodies of POST /api/accept-idcard: a registerNumber, and a status or none.
AcceptBodies ==
    [registerNumber : RegNums, status : {NoStatus, "pending"}, adminId : {NoAdminId}]

\* Bodies of POST /api/login.
LoginBodies ==
    [registerNumber : {"R1"}, status : {NoStatus}, adminId : AdminIdInputs]

NoBody == [registerNumber |-> "R1", status |-> NoStatus, adminId |-> NoAdminId]

Idle ==
    [ep |-> "none", body |-> NoBody, pc |-> "idle", ready |-> FALSE,
     status |-> 0, msg |-> NoMsg, ok |-> FALSE, db |-> FALSE, success |-> FALSE,
     ops |-> <<>>, result |-> {}, deleted |-> 0, accAtDelete |-> 0]

\* ------------------------------------------------------------------- Init
\* mongoose.createConnection(uri, ...) starts connecting at once.  The
\* collections hold what was stored before the process started: no, one or two
\* pending documents of "R1", and possibly an accepted document of "R1".
Init ==
    /\ readyState = Connecting
    /\ \E n \in 0..Cardinality(PrintPool) :
          printids = { d \in PrintPool : d._id <= n }
    /\ acceptedidcards \in SUBSET AcceptedPool
    /\ acchistoryids = HistoryPool
    /\ adminids = AdminPool
    /\ reqs = [q \in Reqs |-> Idle]

\* ------------------------------------------------------------- connection
\* studentDb "connected": the handshake completed (first time or again).
OnConnected ==
    /\ readyState # Connected
    /\ readyState' = Connected
    /\ UNCHANGED <<colls, reqs>>

\* The connection is lost, or server selection timed out while connecting.
OnDisconnected ==
    /\ readyState # Disconnected
    /\ readyState' = Disconnected
    /\ UNCHANGED <<colls, reqs>>

\* ------------------------------------------------------------- middleware
\* Requests are numbered in the order they reach the middleware chain.
CanArrive(q) ==
    /\ reqs[q].pc = "idle"
    /\ \A p \in Reqs : p < q => reqs[p].pc # "idle"

Arrived(ep, body) == [Idle EXCEPT !.ep = ep, !.body = body,
                                !.ready = (readyState = Connected)]

\* A gate that lets every request through.
GateBlocks_Never == FALSE

\* app.use((req, res, next) => { if (studentDb.readyState !== 1) ... })
GateBlocks == readyState # Connected

\* return res.status(503).json({ error: "Database connecting. Please retry." })
GateResponse(r) == [r EXCEPT !.pc = "done", !.status = 503, !.msg = MsgConnecting]

\* res.status(500).json({ error: err.message }) of a handler's catch block
StorageError(r) == [r EXCEPT !.pc = "done", !.status = 500, !.msg = MsgStorage]

\* ---------------------------------------------------------------- /healthz
\* Registered after the gate middleware, so the gate runs first.
HealthzHandler(r) ==
    [r EXCEPT !.pc = "done", !.status = 200, !.ok = TRUE,
              !.db = (readyState = Connected)]

Healthz(q) ==
    /\ CanArrive(q)
    /\ LET r == Arrived("/healthz", NoBody)
       IN  reqs' = [reqs EXCEPT ![q] =
                       IF GateBlocks THEN GateResponse(r) ELSE HealthzHandler(r)]
    /\ UNCHANGED <<readyState, colls>>

\* ----------------------------------------------------------- read endpoints
ReadEndpoints == {"/api/printed", "/api/acchistoryids", "/api/accepted-idcards"}

IdsOf(S) == { d._id : d \in S }

\* The documents Model.find({}) returns, by their _id.
FindAll(ep) ==
    CASE ep = "/api/printed" -> IdsOf(printids)
      [] ep = "/api/acchistoryids" -> IdsOf(acchistoryids)
      [] ep = "/api/accepted-idcards" -> IdsOf(acceptedidcards)

\* try { const data = await Model.find({}); ...
ReadHandler(r) == [r EXCEPT !.pc = "find", !.ops = Append(@, "find")]

\* The middleware chain of a read endpoint: the gate, then the handler.
ReadRoute(ep) ==
    LET r == Arrived(ep, NoBody)
    IN  IF GateBlocks THEN GateResponse(r) ELSE ReadHandler(r)

\* app.get("/api/printed", ...): PrintId.find({})
GetPrinted(q) ==
    /\ CanArrive(q)
    /\ reqs' = [reqs EXCEPT ![q] = ReadRoute("/api/printed")]
    /\ UNCHANGED <<readyState, colls>>

\* app.get("/api/acchistoryids", ...): AcchistoryId.find({})
GetAcchistoryids(q) ==
    /\ CanArrive(q)
    /\ reqs' = [reqs EXCEPT ![q] = ReadRoute("/api/acchistoryids")]
    /\ UNCHANGED <<readyState, colls>>

\* app.get("/api/accepted-idcards", ...): AcceptedIdCard.find({})
GetAcceptedIdcards(q) ==
    /\ CanArrive(q)
    /\ reqs' = [reqs EXCEPT ![q] = ReadRoute("/api/accepted-idcards")]
    /\ UNCHANGED <<readyState, colls>>

\* the find resolves: res.json(data)
FindResolve(q) ==
    /\ reqs[q].pc = "find"
    /\ readyState = Connected
    /\ reqs' = [reqs EXCEPT ![q] =
                   [@ EXCEPT !.pc = "done", !.status = 200,
                             !.result = FindAll(reqs[q].ep)]]
    /\ UNCHANGED <<readyState, colls>>

\* the find rejects: catch (err) { res.status(500).json({ error: err.message }) }
FindReject(q) ==
    /\ reqs[q].pc = "find"
    /\ reqs' = [reqs EXCEPT ![q] = StorageError(@)]
    /\ UNCHANGED <<readyState, colls>>

\* ------------------------------------------------------ /api/accept-idcard
\* new AcceptedIdCard(req.body): the schema defaults status when it is absent.
NewDoc(q) ==
    [_id |-> NewId(q),
     registerNumber |-> reqs[q].body.registerNumber,
     status |-> IF reqs[q].body.status = NoStatus
                THEN DefaultStatus ELSE reqs[q].body.status]

\* The handler up to `await acceptedIdCard.save()`.
AcceptHandler(r) ==
    IF readyState # Connected
    THEN [r EXCEPT !.pc = "done", !.status = 500, !.msg = MsgNotConnected]
    ELSE [r EXCEPT !.pc = "save", !.ops = Append(@, "insert")]

AcceptIdcard(q, body) ==
    /\ CanArrive(q)
    /\ LET r == Arrived("/api/accept-idcard", body)
       IN  reqs' = [reqs EXCEPT ![q] =
                       IF GateBlocks THEN GateResponse(r) ELSE AcceptHandler(r)]
    /\ UNCHANGED <<readyState, colls>>

\* An insert that is skipped when the registerNumber is already accepted.
AcceptSaveResolve_Dedup(q) ==
    /\ reqs[q].pc = "save"
    /\ readyState = Connected
    /\ acceptedidcards' =
          IF \E d \in acceptedidcards :
                d.registerNumber = reqs[q].body.registerNumber
          THEN acceptedidcards
          ELSE acceptedidcards \cup {NewDoc(q)}
    /\ reqs' = [reqs EXCEPT ![q] =
                   [@ EXCEPT !.pc = "deleteOne", !.ops = Append(@, "delete")]]
    /\ UNCHANGED <<readyState, printids, acchistoryids, adminids>>

\* An insert that also writes the accepted document to acchistoryids.
AcceptSaveResolve_History(q) ==
    /\ reqs[q].pc = "save"
    /\ readyState = Connected
    /\ acceptedidcards' = acceptedidcards \cup {NewDoc(q)}
    /\ acchistoryids' = acchistoryids \cup {NewDoc(q)}
    /\ reqs' = [reqs EXCEPT ![q] =
                   [@ EXCEPT !.pc = "deleteOne", !.ops = Append(@, "delete")]]
    /\ UNCHANGED <<readyState, printids, adminids>>

\* save() resolves; the handler goes on to `await PrintId.deleteOne(...)`.
AcceptSaveResolve(q) ==
    /\ reqs[q].pc = "save"
    /\ readyState = Connected
    /\ acceptedidcards' = acceptedidcards \cup {NewDoc(q)}
    /\ reqs' = [reqs EXCEPT ![q] =
                   [@ EXCEPT !.pc = "deleteOne", !.ops = Append(@, "delete")]]
    /\ UNCHANGED <<readyState, printids, acchistoryids, adminids>>

\* A handler that ignores the rejection of save() and goes on to deleteOne.
AcceptSaveReject_GoesOn(q) ==
    /\ reqs[q].pc = "save"
    /\ reqs' = [reqs EXCEPT ![q] =
                   [@ EXCEPT !.pc = "deleteOne", !.ops = Append(@, "delete")]]
    /\ UNCHANGED <<readyState, colls>>

\* A handler that answers 500 although the document was written.
AcceptSaveReject_Written(q) ==
    /\ reqs[q].pc = "save"
    /\ acceptedidcards' = acceptedidcards \cup {NewDoc(q)}
    /\ reqs' = [reqs EXCEPT ![q] = StorageError(@)]
    /\ UNCHANGED <<readyState, printids, acchistoryids, adminids>>

\* save() rejects: the catch block answers 500; deleteOne is never reached.
AcceptSaveReject(q) ==
    /\ reqs[q].pc = "save"
    /\ reqs' = [reqs EXCEPT ![q] = StorageError(@)]
    /\ UNCHANGED <<readyState, colls>>

\* What deleteOne({ registerNumber: reg }) may remove: one matching document
\* (which one is the store's choice), or nothing when none matches.
DeleteOne(reg) ==
    LET m == { d \in printids : d.registerNumber = reg }
    IN  IF m = {} THEN { {} } ELSE { {d} : d \in m }

\* deleteOne resolves: res.status(201).json({ message, data: savedCard })
AcceptDeleteResolve(q) ==
    /\ reqs[q].pc = "deleteOne"
    /\ readyState = Connected
    /\ \E gone \in DeleteOne(reqs[q].body.registerNumber) :
          /\ printids' = printids \ gone
          /\ reqs' = [reqs EXCEPT ![q] =
                [@ EXCEPT !.pc = "done", !.status = 201, !.msg = MsgAccepted,
                          !.deleted = IF gone = {} THEN 0
                                      ELSE (CHOOSE d \in gone : TRUE)._id,
                          !.accAtDelete = Cardinality(
                              { d \in acceptedidcards :
                                  d.registerNumber = reqs[q].body.registerNumber })]]
    /\ UNCHANGED <<readyState, acceptedidcards, acchistoryids, adminids>>

\* A handler that removes the inserted document when deleteOne rejects.
AcceptDeleteReject_Rollback(q) ==
    /\ reqs[q].pc = "deleteOne"
    /\ acceptedidcards' = { d \in acceptedidcards : d._id # NewId(q) }
    /\ reqs' = [reqs EXCEPT ![q] = StorageError(@)]
    /\ UNCHANGED <<readyState, printids, acchistoryids, adminids>>

\* deleteOne rejects: the catch block answers 500; nothing is rolled back.
AcceptDeleteReject(q) ==
    /\ reqs[q].pc = "deleteOne"
    /\ reqs' = [reqs EXCEPT ![q] = StorageError(@)]
    /\ UNCHANGED <<readyState, colls>>

\* --------------------------------------------------------------- /api/login
\* Whether a document whose adminid is `stored` matches { adminid: f }, where f
\* is req.body.adminId as parsed from JSON: a string matches by equality, an
\* absent field is sent as null and matches no stored string, and an object
\* { "$ne": v } is a query operator matching every value other than v.
Matches(stored, f) ==
    CASE f.kind = "str" -> stored = f.val
      [] f.kind = "absent" -> FALSE
      [] f.kind = "ne" -> stored # f.val

\* The handler up to `await AdminId.findOne({ adminid: adminId }, ...).lean()`.
LoginHandler(r) == [r EXCEPT !.pc = "findOne", !.ops = Append(@, "findOne")]

Login(q, body) ==
    /\ CanArrive(q)
    /\ LET r == Arrived("/api/login", body)
       IN  reqs' = [reqs EXCEPT ![q] =
                       IF GateBlocks THEN GateResponse(r) ELSE LoginHandler(r)]
    /\ UNCHANGED <<readyState, colls>>

\* findOne resolves: if (admin) 200 { success: true } else 401.
LoginResolve(q) ==
    /\ reqs[q].pc = "findOne"
    /\ readyState = Connected
    /\ LET admin == \E d \in adminids : Matches(d.adminid, reqs[q].body.adminId)
       IN  reqs' = [reqs EXCEPT ![q] =
                IF admin
                THEN [@ EXCEPT !.pc = "done", !.status = 200, !.success = TRUE]
                ELSE [@ EXCEPT !.pc = "done", !.status = 401, !.success = FALSE,
                               !.msg = MsgInvalidAdmin]]
    /\ UNCHANGED <<readyState, colls>>

\* findOne rejects: 500 { error: err.message }
LoginReject(q) ==
    /\ reqs[q].pc = "findOne"
    /\ reqs' = [reqs EXCEPT ![q] = StorageError(@)]
    /\ UNCHANGED <<readyState, colls>>

\* ------------------------------------------------------------ specification
Next ==
    \/ OnConnected
    \/ OnDisconnected
    \/ \E q \in Reqs : Healthz(q)
    \/ \E q \in Reqs : GetPrinted(q)
    \/ \E q \in Reqs : GetAcchistoryids(q)
    \/ \E q \in Reqs : GetAcceptedIdcards(q)
    \/ \E q \in Reqs : FindResolve(q)
    \/ \E q \in Reqs : FindReject(q)
    \/ \E q \in Reqs : \E body \in AcceptBodies : AcceptIdcard(q, body)
    \/ \E q \in Reqs : AcceptSaveResolve(q)
    \/ \E q \in Reqs : AcceptSaveReject(q)
    \/ \E q \in Reqs : AcceptDeleteResolve(q)
    \/ \E q \in Reqs : AcceptDeleteReject(q)
    \/ \E q \in Reqs : \E body \in LoginBodies : Login(q, body)
    \/ \E q \in Reqs : LoginResolve(q)
    \/ \E q \in Reqs : LoginReject(q)

Spec == Init /\ [][Next]_vars

\* ------------------------------------------------------------------ claims
GatedEndpoints ==
    {"/api/printed", "/api/acchistoryids", "/api/accepted-idcards",
     "/api/accept-idcard", "/api/login"}

Has(seq, x) == \E i \in 1..Len(seq) : seq[i] = x

IsAccept(q) == reqs[q].ep = "/api/accept-idcard"

\* The acceptedidcards documents whose registerNumber is reg.
AcceptedWith(reg) == { d \in acceptedidcards : d.registerNumber = reg }

\* The printids documents whose registerNumber is reg.
PendingWith(reg) == { d \in printids : d.registerNumber = reg }

\* Request q's save() has resolved (the handler went on to deleteOne).
Inserted(q) == IsAccept(q) /\ Has(reqs[q].ops, "delete")

\* C1: a request to a gated endpoint that meets the middleware while the
\* connection is not connected is answered 503 with the "Database connecting"
\* error and issues no storage operation; /api/accept-idcard never answers it
\* with 500.
C1_GateAnswers503 ==
    \A q \in Reqs :
        (reqs[q].ep \in GatedEndpoints /\ ~reqs[q].ready)
            => /\ reqs[q].pc = "done"
               /\ reqs[q].status = 503
               /\ reqs[q].msg = MsgConnecting
               /\ reqs[q].ops = <<>>

\* C1 witness: an accept request and a login request both met the gate while
\* the connection was not connected.
C1_Witness ==
    \E q, p \in Reqs :
        /\ IsAccept(q) /\ ~reqs[q].ready /\ reqs[q].status = 503
        /\ reqs[p].ep = "/api/login" /\ ~reqs[p].ready /\ reqs[p].status = 503

\* C2 (as claimed): /healthz always answers 200 with db telling whether the
\* connection was connected, and never 503.
C2_HealthzBypassesGate ==
    \A q \in Reqs :
        reqs[q].ep = "/healthz"
            => /\ reqs[q].status = 200
               /\ reqs[q].db = reqs[q].ready

\* C3 (as claimed): once an accept of registerNumber r is answered 201, printids
\* holds no document with registerNumber r.
C3_NoPendingAfterAccept ==
    \A q \in Reqs :
        (IsAccept(q) /\ reqs[q].status = 201)
            => PendingWith(reqs[q].body.registerNumber) = {}

\* C4 (as claimed): once an accept of registerNumber r is answered 201,
\* acceptedidcards holds exactly one document with registerNumber r, and its
\* status is "accepted".
C4_ExactlyOneAccepted ==
    \A q \in Reqs :
        (IsAccept(q) /\ reqs[q].status = 201)
            => \E d \in AcceptedWith(reqs[q].body.registerNumber) :
                  /\ AcceptedWith(reqs[q].body.registerNumber) = {d}
                  /\ d.status = "accepted"

\* C4 (amended): once an accept of registerNumber r is answered 201,
\* acceptedidcards holds the one document this request inserted, with
\* registerNumber r and with status "accepted" when the body carried no status
\* and the body's status otherwise; every other document with registerNumber r
\* was there before or was inserted by another accept of r.
C4_OwnDocumentAccepted ==
    \A q \in Reqs :
        (IsAccept(q) /\ reqs[q].status = 201)
            => LET r == reqs[q].body.registerNumber
                   mine == { d \in AcceptedWith(r) : d._id = NewId(q) }
               IN  /\ Cardinality(mine) = 1
                   /\ \A d \in mine :
                         d.status = IF reqs[q].body.status = NoStatus
                                    THEN "accepted" ELSE reqs[q].body.status
                   /\ \A d \in AcceptedWith(r) \ mine :
                         \/ d \in AcceptedPool
                         \/ \E p \in Reqs \ {q} :
                               /\ Inserted(p)
                               /\ reqs[p].body.registerNumber = r
                               /\ d._id = NewId(p)

\* C4 witness: an accept without a status field was answered 201 and its
\* document, with status "accepted", is the only one with that registerNumber.
C4_Witness ==
    \E q \in Reqs :
        /\ IsAccept(q) /\ reqs[q].status = 201
        /\ reqs[q].body.status = NoStatus
        /\ \E d \in acceptedidcards :
              /\ AcceptedWith(reqs[q].body.registerNumber) = {d}
              /\ d._id = NewId(q)
              /\ d.status = "accepted"

\* C5 (as claimed): a login that passed the gate and met no storage error is
\* answered 200 {success: true} exactly when the submitted adminId is equal to
\* the adminid of some document, and 401 "Invalid admin ID" otherwise.
C5_LoginIffExactMatch ==
    \A q \in Reqs :
        (reqs[q].ep = "/api/login" /\ reqs[q].pc = "done"
            /\ reqs[q].ready /\ reqs[q].status # 500)
            => LET f == reqs[q].body.adminId
                   exact == f.kind = "str" /\ \E d \in adminids : d.adminid = f.val
               IN  IF exact
                   THEN reqs[q].status = 200 /\ reqs[q].success
                   ELSE /\ reqs[q].status = 401
                        /\ ~reqs[q].success
                        /\ reqs[q].msg = MsgInvalidAdmin

\* C6: the delete is issued only after the insert of the same request has
\* succeeded: a request that issued its delete, and so every request that
\* removed a pending document, has its document in acceptedidcards.
C6_DeleteOnlyAfterInsert ==
    \A q \in Reqs :
        /\ Has(reqs[q].ops, "delete")
              => /\ reqs[q].ops = <<"insert", "delete">>
                 /\ \E d \in AcceptedWith(reqs[q].body.registerNumber) :
                       d._id = NewId(q)
        /\ reqs[q].deleted # 0
              => /\ Has(reqs[q].ops, "delete")
                 /\ AcceptedWith(reqs[q].body.registerNumber) # {}

\* C6 witness: an accept removed a pending document.
C6_Witness ==
    \E q \in Reqs :
        /\ reqs[q].deleted # 0
        /\ reqs[q].deleted \notin IdsOf(printids)

\* C7: nothing deduplicates: every accept whose save() resolved has added one
\* document of its own, whatever acceptedidcards held and whatever other accepts
\* of the same registerNumber are in flight.
C7_NoDeduplication ==
    \A reg \in RegNums :
        Cardinality({ d \in AcceptedWith(reg) : d \notin AcceptedPool })
            = Cardinality({ q \in Reqs :
                  Inserted(q) /\ reqs[q].body.registerNumber = reg })

\* C7 witness: two accepts of one registerNumber were both answered 201, each
\* deleteOne resolved when both documents were already inserted, and
\* acceptedidcards holds the two documents.
C7_Witness ==
    \E q, p \in Reqs :
        /\ q # p
        /\ IsAccept(q) /\ IsAccept(p)
        /\ reqs[q].body.registerNumber = reqs[p].body.registerNumber
        /\ reqs[q].status = 201 /\ reqs[p].status = 201
        /\ IdsOf(AcceptedWith(reqs[q].body.registerNumber)) = {NewId(q), NewId(p)}
        /\ reqs[q].accAtDelete = 2 /\ reqs[p].accAtDelete = 2

\* C8: when deleteOne rejects after save() resolved, the answer is 500 with the
\* error's message, the inserted document stays in acceptedidcards, and
\* printids is left as it was, so a pending document of that registerNumber
\* is then in both collections.
C8_DeleteFailureKeepsBoth ==
    [][\A q \in Reqs :
          (reqs[q].pc = "deleteOne" /\ reqs'[q].pc = "done"
              /\ reqs'[q].status # 201)
            => /\ reqs'[q].status = 500
               /\ reqs'[q].msg = MsgStorage
               /\ printids' = printids
               /\ acceptedidcards' = acceptedidcards
               /\ \E d \in acceptedidcards' :
                     /\ d._id = NewId(q)
                     /\ d.registerNumber = reqs[q].body.registerNumber]_vars

\* C8 witness: a delete failed after the insert, and the registerNumber is in
\* both collections.
C8_Witness ==
    \E q \in Reqs :
        /\ IsAccept(q) /\ reqs[q].status = 500
        /\ reqs[q].ops = <<"insert", "delete">>
        /\ NewId(q) \in IdsOf(AcceptedWith(reqs[q].body.registerNumber))
        /\ PendingWith(reqs[q].body.registerNumber) # {}

\* C9: the only changes to stored data are the insert of one new document into
\* acceptedidcards and the removal of one document from printids, both made by
\* an accept request; acchistoryids and adminids never change, and a step of
\* any other request changes no collection.
C9_Frame ==
    [][/\ acchistoryids' = acchistoryids
       /\ adminids' = adminids
       /\ acceptedidcards \subseteq acceptedidcards'
       /\ printids' \subseteq printids
       /\ acceptedidcards' # acceptedidcards
             => \E q \in Reqs :
                   /\ IsAccept(q)
                   /\ reqs[q].pc = "save" /\ reqs'[q].pc = "deleteOne"
                   /\ NewId(q) \notin IdsOf(acceptedidcards)
                   /\ \E d \in acceptedidcards' :
                         /\ d._id = NewId(q)
                         /\ acceptedidcards' = acceptedidcards \cup {d}
                   /\ printids' = printids
       /\ printids' # printids
             => \E q \in Reqs :
                   /\ IsAccept(q)
                   /\ reqs[q].pc = "deleteOne" /\ reqs'[q].status = 201
                   /\ \E d \in PendingWith(reqs[q].body.registerNumber) :
                         printids' = printids \ {d}
                   /\ acceptedidcards' = acceptedidcards
       /\ \A q \in Reqs :
             (reqs'[q] # reqs[q] /\ reqs'[q].ep # "/api/accept-idcard")
                 => colls' = colls]_vars

\* C9 witness: an accept has inserted and removed a document, a read endpoint
\* has answered 200, and acchistoryids is as it was at the start.
C9_Witness ==
    \E q, p \in Reqs :
        /\ IsAccept(q) /\ reqs[q].status = 201 /\ reqs[q].deleted # 0
        /\ reqs[p].ep \in ReadEndpoints /\ reqs[p].status = 200
        /\ acchistoryids = HistoryPool

\* C10: when save() rejects, the answer is 500 with the error's message, no
\* delete is issued, and the step leaves every collection as it was.
C10_InsertFailureChangesNothing ==
    [][\A q \in Reqs :
          (reqs[q].pc = "save" /\ reqs'[q].pc = "done")
            => /\ reqs'[q].status = 500
               /\ reqs'[q].msg = MsgStorage
               /\ reqs'[q].ops = <<"insert">>
               /\ reqs'[q].deleted = 0
               /\ NewId(q) \notin IdsOf(acceptedidcards')
               /\ colls' = colls]_vars

\* C10 witness: an insert failed while a document of that registerNumber was
\* pending; the pending document is still there and nothing was inserted.
C10_Witness ==
    \E q \in Reqs :
        /\ IsAccept(q) /\ reqs[q].pc = "done" /\ reqs[q].ops = <<"insert">>
        /\ reqs[q].status = 500
        /\ PendingWith(reqs[q].body.registerNumber) # {}
        /\ NewId(q) \notin IdsOf(acceptedidcards)

====
